---- MODULE Spec2Model ----
(***************************************************************************)
(* Model of patch/exchange/bitget.py: the Bitget subclass of the generic   *)
(* Exchange adapter.  Every overridden hook is one action; the calls a     *)
(* hook makes on its collaborators (the base Exchange class, the ccxt      *)
(* client) are recorded in the order they are issued.                      *)
(***************************************************************************)
EXTENDS Integers, Sequences, FiniteSets, TLC

VARIABLES trading_mode,   \* self.trading_mode
          margin_mode,    \* self.margin_mode
          dry_run,        \* self._config["dry_run"]
          validate,       \* whether the exchange was constructed with validation
          pc,             \* "idle", or "init" while additional_exchange_init is being (re)tried
          attempts,       \* additional_exchange_init: what each attempt so far raised
          last            \* the call in progress or last finished: its arguments, the calls it issued, its outcome

vars == <<trading_mode, margin_mode, dry_run, validate, pc, attempts, last>>

----------------------------------------------------------------------------
(* Bounds of the model *)

MaxLeverage == 2
MaxAttempts == 3

----------------------------------------------------------------------------
(* Python values *)

PyNone == <<"NoneType">>
PyStr(s) == <<"str", s>>

\* bool(v) of an optional string: None and "" are falsy
Truthy(v) == v # PyNone /\ v # PyStr("")

\* a and b, on booleans: the first operand when it is falsy, else the second
PyAnd(a, b) == IF a THEN b ELSE a

\* TradingMode / MarginMode (string enums; MarginMode.NONE is the empty string)
SPOT == "spot"
MARGIN == "margin"
FUTURES == "futures"
TradingModes == {SPOT, MARGIN, FUTURES}

NONE == ""
CROSS == "cross"
ISOLATED == "isolated"
MarginModes == {NONE, CROSS, ISOLATED}

\* bool(margin_mode) of a str-valued enum member: that of its value
MarginTruthy(m) == m # ""

Pairs == {"BTC/USDT:USDT", "ETH/USDT:USDT"}
PairArgs == {PyNone, PyStr("")} \cup {PyStr(p) : p \in Pairs}
Sides == {"buy", "sell"}
OrderTypes == {"market", "limit", "Market", "stop_loss_limit", ""}
TimeInForces == {"GTC", "FOK", "IOC"}
Leverages == 1..MaxLeverage

----------------------------------------------------------------------------
_supported_trading_mode_margin_pairs == {<<FUTURES, CROSS>>, <<FUTURES, ISOLATED>>}

\* Exchange.validate_trading_mode_and_margin_mode: outside spot mode the pair of
\* modes must be a supported one
validate_trading_mode_and_margin_mode(tm, mm) ==
    tm = SPOT \/ <<tm, mm>> \in _supported_trading_mode_margin_pairs

\* The adapter after construction.  A validated construction rejects an
\* unsupported pair of modes; an unvalidated one keeps whatever is configured.
Init ==
    /\ trading_mode \in TradingModes
    /\ margin_mode \in MarginModes
    /\ dry_run \in BOOLEAN
    /\ validate \in BOOLEAN
    /\ validate => validate_trading_mode_and_margin_mode(trading_mode, margin_mode)
    /\ pc = "idle"
    /\ attempts = <<>>
    /\ last = [op |-> "construct"]

----------------------------------------------------------------------------
(* fetch_positions *)

\* variant: `pair is None`
fetch_positions_no_pair_none_only(pair) == pair = PyNone

\* `not pair`
fetch_positions_no_pair(pair) == ~Truthy(pair)

UnfilteredRequest == [fn |-> "_api.fetch_positions", symbols |-> PyNone]
BaseRequest(pair) == [fn |-> "super.fetch_positions", symbols |-> pair]

fetch_positions_calls(pair) ==
    IF fetch_positions_no_pair(pair)
    THEN <<UnfilteredRequest>>
    ELSE <<BaseRequest(pair)>>

fetch_positions ==
    /\ pc = "idle"
    /\ \E pair \in PairArgs :
         last' = [op |-> "fetch_positions", pair |-> pair,
                  calls |-> fetch_positions_calls(pair)]
    /\ UNCHANGED <<trading_mode, margin_mode, dry_run, validate, pc, attempts>>

----------------------------------------------------------------------------
(* _lev_prep *)

\* variant: `self.trading_mode == TradingMode.FUTURES`
lev_prep_active_futures_only(tm) == tm = FUTURES

\* `self.trading_mode != TradingMode.SPOT`
lev_prep_active(tm) == tm # SPOT

\* variant: the caller's accept_fail is handed on
lev_prep_accept_fail_handed_on(accept_fail) == accept_fail

\* the accept_fail handed to set_margin_mode and to _set_leverage: the literal
\* True, whatever accept_fail _lev_prep itself was called with
lev_prep_accept_fail(accept_fail) == TRUE

\* Exchange.set_margin_mode / Exchange._set_leverage, as seen by their caller:
\* the exchange accepts the request or not; a refusal is raised to the caller
\* unless the call was made with accept_fail
BaseCallOutcome(ok, accept_fail) ==
    IF ok THEN "ok" ELSE IF accept_fail THEN "tolerated" ELSE "raised"

lev_prep_calls(tm, mm, pair, leverage, accept_fail, mm_ok, lev_ok) ==
    LET af == lev_prep_accept_fail(accept_fail)
        set_margin_mode ==
            [fn |-> "set_margin_mode", pair |-> pair, margin_mode |-> mm,
             accept_fail |-> af, params |-> [leverage |-> leverage],
             ok |-> mm_ok, outcome |-> BaseCallOutcome(mm_ok, af)]
        set_leverage ==
            [fn |-> "_set_leverage", leverage |-> leverage, pair |-> pair,
             accept_fail |-> af,
             ok |-> lev_ok, outcome |-> BaseCallOutcome(lev_ok, af)]
    IN  IF ~lev_prep_active(tm) THEN <<>>
        ELSE IF set_margin_mode.outcome = "raised" THEN <<set_margin_mode>>
        ELSE <<set_margin_mode, set_leverage>>

Raises(calls) == \E i \in 1..Len(calls) : calls[i].outcome = "raised"

_lev_prep ==
    /\ pc = "idle"
    /\ \E pair \in Pairs, leverage \in Leverages, side \in Sides,
          accept_fail \in BOOLEAN, mm_ok \in BOOLEAN, lev_ok \in BOOLEAN :
         LET calls == lev_prep_calls(trading_mode, margin_mode, pair, leverage,
                                     accept_fail, mm_ok, lev_ok)
         IN  last' = [op |-> "_lev_prep", pair |-> pair, leverage |-> leverage,
                      side |-> side, accept_fail |-> accept_fail,
                      calls |-> calls, raised |-> Raises(calls)]
    /\ UNCHANGED <<trading_mode, margin_mode, dry_run, validate, pc, attempts>>

----------------------------------------------------------------------------
(* _get_params *)

EmptyDict == [k \in {} |-> TRUE]

\* Exchange._get_params: the generic builder's payload
super_get_params(side, ordertype, leverage, reduceOnly, time_in_force) ==
    (IF time_in_force # "GTC" /\ ordertype # "market"
     THEN "timeInForce" :> time_in_force ELSE EmptyDict)
    @@ (IF reduceOnly THEN "reduceOnly" :> TRUE ELSE EmptyDict)

\* variant: `self.trading_mode == TradingMode.FUTURES`
get_params_sets_position_idx_any_margin(tm, mm) == tm = FUTURES

\* `self.trading_mode == TradingMode.FUTURES and self.margin_mode`
get_params_sets_position_idx(tm, mm) == tm = FUTURES /\ MarginTruthy(mm)

get_params(tm, mm, side, ordertype, leverage, reduceOnly, time_in_force) ==
    LET params == super_get_params(side, ordertype, leverage, reduceOnly, time_in_force)
    IN  IF get_params_sets_position_idx(tm, mm)
        THEN ("positionIdx" :> 1) @@ params
        ELSE params

_get_params ==
    /\ pc = "idle"
    /\ \E side \in Sides, ordertype \in OrderTypes, leverage \in Leverages,
          reduceOnly \in BOOLEAN, time_in_force \in TimeInForces :
         last' = [op |-> "_get_params", side |-> side, ordertype |-> ordertype,
                  leverage |-> leverage, reduceOnly |-> reduceOnly,
                  time_in_force |-> time_in_force,
                  base |-> super_get_params(side, ordertype, leverage, reduceOnly,
                                            time_in_force),
                  result |-> get_params(trading_mode, margin_mode, side, ordertype,
                                        leverage, reduceOnly, time_in_force)]
    /\ UNCHANGED <<trading_mode, margin_mode, dry_run, validate, pc, attempts>>

----------------------------------------------------------------------------
(* _order_needs_price *)

\* variant: `ordertype == "limit"`
order_needs_price_limit_only(side, ordertype) == ordertype = "limit"

order_needs_price(side, ordertype) == ordertype # "market"

_order_needs_price ==
    /\ pc = "idle"
    /\ \E side \in Sides, ordertype \in OrderTypes :
         last' = [op |-> "_order_needs_price", side |-> side, ordertype |-> ordertype,
                  result |-> order_needs_price(side, ordertype)]
    /\ UNCHANGED <<trading_mode, margin_mode, dry_run, validate, pc, attempts>>

----------------------------------------------------------------------------
(* market_is_future *)

\* a market dict, as far as this class reads it: the optional "swap" flag
Markets == {EmptyDict} \cup {"swap" :> b : b \in BOOLEAN}

\* variant: market.get("swap", True)
market_get_swap_default_true(market) ==
    IF "swap" \in DOMAIN market THEN market["swap"] ELSE TRUE

\* market.get("swap", False)
market_get_swap(market) ==
    IF "swap" \in DOMAIN market THEN market["swap"] ELSE FALSE

\* main is what super().market_is_future(market) answered
market_is_future_result(main, market) == PyAnd(main, market_get_swap(market))

market_is_future ==
    /\ pc = "idle"
    /\ \E market \in Markets, main \in BOOLEAN :
         last' = [op |-> "market_is_future", market |-> market, main |-> main,
                  result |-> market_is_future_result(main, market)]
    /\ UNCHANGED <<trading_mode, margin_mode, dry_run, validate, pc, attempts>>

----------------------------------------------------------------------------
(* _ft_has / _ft_has_futures *)

\* variant: the base table claims a trade history
_ft_has_with_trades_history ==
    [ohlcv_has_history |-> TRUE,
     order_time_in_force |-> <<"GTC", "FOK", "IOC">>,
     ws_enabled |-> TRUE,
     trades_has_history |-> TRUE,
     fetch_orders_limit_minutes |-> 7 * 1440]

_ft_has ==
    [ohlcv_has_history |-> TRUE,
     order_time_in_force |-> <<"GTC", "FOK", "IOC">>,
     ws_enabled |-> TRUE,
     trades_has_history |-> FALSE,
     fetch_orders_limit_minutes |-> 7 * 1440]

_ft_has_futures ==
    [ohlcv_has_history |-> TRUE,
     mark_ohlcv_timeframe |-> "4h",
     funding_fee_timeframe |-> "8h",
     funding_fee_candle_limit |-> 200,
     stoploss_on_exchange |-> TRUE,
     stoploss_order_types |-> [limit |-> "limit", market |-> "market"],
     stoploss_blocks_assets |-> FALSE,
     stop_price_prop |-> "stopPx",
     stop_price_type_field |-> "triggerType",
     stop_price_type_value_mapping |->
         [LAST |-> "latest_price", MARK |-> "mark_price", INDEX |-> "index_price"],
     exchange_has_overrides |-> [fetchOrder |-> TRUE]]

\* Capability Registry: the table of a trading mode; the mode's own table wins
\* over the base table on a key collision
ft_has_table(tm) == IF tm = FUTURES THEN _ft_has_futures @@ _ft_has ELSE _ft_has

\* Capability Registry get(feature); an absent feature is UnsupportedFeature
ft_has_get(tm, feature) ==
    IF feature \in DOMAIN ft_has_table(tm)
    THEN [found |-> TRUE, value |-> ft_has_table(tm)[feature]]
    ELSE [found |-> FALSE, value |-> "UnsupportedFeature"]

Features == DOMAIN _ft_has \cup DOMAIN _ft_has_futures \cup {"l2_limit_range"}

ft_has_lookup ==
    /\ pc = "idle"
    /\ \E feature \in Features :
         last' = [op |-> "ft_has", feature |-> feature,
                  result |-> ft_has_get(trading_mode, feature)]
    /\ UNCHANGED <<trading_mode, margin_mode, dry_run, validate, pc, attempts>>

----------------------------------------------------------------------------
(* additional_exchange_init *)

\* the ccxt exception classes the handlers name, with some of their subclasses
ccxt_parent ==
    [ExchangeError |-> "BaseError",
     BadRequest |-> "ExchangeError",
     AuthenticationError |-> "ExchangeError",
     OperationFailed |-> "BaseError",
     NetworkError |-> "OperationFailed",
     DDoSProtection |-> "NetworkError",
     RequestTimeout |-> "NetworkError"]

CcxtErrors == DOMAIN ccxt_parent \cup {"BaseError"}

RECURSIVE IsInstance(_, _)
IsInstance(e, cls) ==
    \/ e = cls
    \/ e \in DOMAIN ccxt_parent /\ IsInstance(ccxt_parent[e], cls)

\* variant: the OperationFailed/ExchangeError clause is tried first
except_chain_broad_first(e) ==
    IF IsInstance(e, "OperationFailed") \/ IsInstance(e, "ExchangeError")
    THEN "TemporaryError"
    ELSE IF IsInstance(e, "DDoSProtection") THEN "DDosProtection"
    ELSE IF IsInstance(e, "BaseError") THEN "OperationalException"
    ELSE "uncaught"

\* the except clauses, tried in order; the class raised in place of e
except_chain(e) ==
    IF IsInstance(e, "DDoSProtection") THEN "DDosProtection"
    ELSE IF IsInstance(e, "OperationFailed") \/ IsInstance(e, "ExchangeError")
         THEN "TemporaryError"
    ELSE IF IsInstance(e, "BaseError") THEN "OperationalException"
    ELSE "uncaught"

\* what the guarded block raises: it reads the dry_run setting and issues no call
try_block(dry) == {"none"}

\* retrier: the failures that are tried again
Retryable(kind) == kind \in {"DDosProtection", "TemporaryError"}

\* variant: the method without the @retrier decorator: its first failure is final
additional_exchange_init_undecorated(raisable) ==
    /\ pc \in {"idle", "init"}
    /\ \E e \in raisable :
         LET kind == IF e = "none" THEN "ok" ELSE except_chain(e)
         IN  /\ pc' = "idle"
             /\ attempts' = <<>>
             /\ last' = [op |-> "additional_exchange_init",
                         attempts |-> <<[raised |-> e, kind |-> kind]>>,
                         status |-> IF kind = "ok" THEN "Success" ELSE "FatalFailure",
                         error |-> kind]
    /\ UNCHANGED <<trading_mode, margin_mode, dry_run, validate>>

\* One attempt of the decorated method and the retrier's decision on it; raisable
\* is what the guarded block may raise ("none": it completes).
additional_exchange_init(raisable) ==
    /\ pc \in {"idle", "init"}
    /\ \E e \in raisable :
         LET kind == IF e = "none" THEN "ok" ELSE except_chain(e)
             made == Append(IF pc = "idle" THEN <<>> ELSE attempts,
                            [raised |-> e, kind |-> kind])
         IN  IF Retryable(kind) /\ Len(made) < MaxAttempts
             THEN /\ pc' = "init"
                  /\ attempts' = made
                  /\ last' = [op |-> "additional_exchange_init", attempts |-> made,
                              status |-> "Retrying", error |-> kind]
             ELSE /\ pc' = "idle"
                  /\ attempts' = <<>>
                  /\ last' = [op |-> "additional_exchange_init", attempts |-> made,
                              status |-> IF kind = "ok" THEN "Success" ELSE "FatalFailure",
                              error |-> kind]
    /\ UNCHANGED <<trading_mode, margin_mode, dry_run, validate>>

----------------------------------------------------------------------------
Next ==
    \/ fetch_positions
    \/ _lev_prep
    \/ _get_params
    \/ _order_needs_price
    \/ market_is_future
    \/ ft_has_lookup
    \/ additional_exchange_init(try_block(dry_run))

Spec == Init /\ [][Next]_vars

\* The same program with the guarded block of additional_exchange_init made to
\* raise each ccxt error class: the handlers and the retrier under failure.
NextFault == additional_exchange_init(CcxtErrors \cup {"none"})

SpecFault == Init /\ [][NextFault]_vars

----------------------------------------------------------------------------
(* Properties *)

\* C1: fetch_positions with no pair (None or "") issues exactly one request, the
\* client's unfiltered one; with a pair it issues exactly the base
\* fetch_positions for that pair and never the unfiltered request.
C1_FetchPositionsFilter ==
    last.op = "fetch_positions" =>
        IF last.pair \in {PyNone, PyStr("")}
        THEN last.calls = <<UnfilteredRequest>>
        ELSE /\ last.calls = <<BaseRequest(last.pair)>>
             /\ \A i \in 1..Len(last.calls) : last.calls[i] # UnfilteredRequest

C1_Witness ==
    /\ last.op = "fetch_positions"
    /\ last.pair = PyStr("")
    /\ last.calls = <<UnfilteredRequest>>

\* C2: _lev_prep never raises, in any trading mode, for any pair, leverage, side
\* and accept_fail, whichever of set_margin_mode and _set_leverage fail.
C2_LevPrepNeverRaises ==
    last.op = "_lev_prep" => ~last.raised

C2_Witness ==
    /\ last.op = "_lev_prep"
    /\ Len(last.calls) = 2
    /\ ~last.calls[1].ok
    /\ ~last.calls[2].ok
    /\ ~last.raised

SomeCallFailed(calls) == \E i \in 1..Len(calls) : ~calls[i].ok

\* C3: called with accept_fail=False, _lev_prep surfaces a failure of
\* set_margin_mode or _set_leverage to its caller.
C3_FailureSurfaced ==
    (last.op = "_lev_prep" /\ ~last.accept_fail /\ SomeCallFailed(last.calls))
        => last.raised

\* C4: in spot mode _lev_prep issues no call; in every other mode it issues
\* set_margin_mode for the pair and then _set_leverage, each exactly once,
\* also when set_margin_mode failed.
C4_LevPrepSequence ==
    last.op = "_lev_prep" =>
        IF trading_mode = SPOT
        THEN last.calls = <<>>
        ELSE /\ Len(last.calls) = 2
             /\ last.calls[1].fn = "set_margin_mode"
             /\ last.calls[1].pair = last.pair
             /\ last.calls[1].margin_mode = margin_mode
             /\ last.calls[2].fn = "_set_leverage"
             /\ last.calls[2].pair = last.pair
             /\ last.calls[2].leverage = last.leverage

C4_Witness ==
    /\ last.op = "_lev_prep"
    /\ trading_mode = MARGIN
    /\ Len(last.calls) = 2
    /\ ~last.calls[1].ok
    /\ last.calls[2].fn = "_set_leverage"

\* C5: _order_needs_price is false for ordertype "market" and true for every
\* other order type, whatever the side and the trading mode.
C5_MarketNeedsNoPrice ==
    last.op = "_order_needs_price" =>
        /\ last.ordertype = "market" => last.result = FALSE
        /\ last.ordertype # "market" => last.result = TRUE

C5_Witness ==
    /\ last.op = "_order_needs_price"
    /\ last.ordertype = "market"
    /\ last.side = "sell"
    /\ trading_mode = FUTURES
    /\ last.result = FALSE

\* C6: a feature resolves to the futures table's value in futures mode when that
\* table has it, else to the base table's value; in spot mode a feature of the
\* futures table alone is not visible.
C6_CapabilityLookup ==
    last.op = "ft_has" =>
        LET f == last.feature
            r == last.result
        IN  /\ (trading_mode = FUTURES /\ f \in DOMAIN _ft_has_futures)
                   => (r.found /\ r.value = _ft_has_futures[f])
            /\ ((trading_mode # FUTURES \/ f \notin DOMAIN _ft_has_futures)
                    /\ f \in DOMAIN _ft_has)
                   => (r.found /\ r.value = _ft_has[f])
            /\ (trading_mode = SPOT /\ f \notin DOMAIN _ft_has) => ~r.found
            /\ trading_mode = FUTURES =>
                   /\ f = "stoploss_on_exchange" => r.value = TRUE
                   /\ f = "stop_price_prop" => r.value = "stopPx"
                   /\ f = "ohlcv_has_history" => r.value = TRUE
                   /\ f = "order_time_in_force" => r.value = <<"GTC", "FOK", "IOC">>
                   /\ f = "ws_enabled" => r.value = TRUE
                   /\ f = "trades_has_history" => r.value = FALSE
                   /\ f = "fetch_orders_limit_minutes" => r.value = 10080

C6_Witness ==
    /\ last.op = "ft_has"
    /\ trading_mode = FUTURES
    /\ last.feature = "trades_has_history"
    /\ last.result.found
    /\ last.result.value = FALSE

AllRetryable(made) == \A i \in 1..Len(made) : Retryable(made[i].kind)

\* C7: when every attempt of additional_exchange_init ends in a retryable
\* failure, the call ends after exactly MaxAttempts attempts in a fatal failure;
\* no call makes more than MaxAttempts attempts.
C7_BoundedRetry ==
    /\ Len(attempts) < MaxAttempts
    /\ last.op = "additional_exchange_init" =>
           /\ Len(last.attempts) <= MaxAttempts
           /\ (pc = "idle" /\ AllRetryable(last.attempts)) =>
                  /\ Len(last.attempts) = MaxAttempts
                  /\ last.status = "FatalFailure"

C7_Witness ==
    /\ pc = "idle"
    /\ last.op = "additional_exchange_init"
    /\ AllRetryable(last.attempts)
    /\ Len(last.attempts) = MaxAttempts
    /\ last.status = "FatalFailure"

\* C8: every ccxt error raised in additional_exchange_init is re-raised as
\* exactly one class: DDoSProtection as DDosProtection, any other
\* OperationFailed or ExchangeError as TemporaryError, any other BaseError as
\* OperationalException.
C8_ErrorClassification ==
    last.op = "additional_exchange_init" =>
        \A i \in 1..Len(last.attempts) :
            LET a == last.attempts[i]
            IN  /\ a.raised = "DDoSProtection" => a.kind = "DDosProtection"
                /\ a.raised \in {"OperationFailed", "NetworkError", "RequestTimeout",
                                 "ExchangeError", "BadRequest", "AuthenticationError"}
                       => a.kind = "TemporaryError"
                /\ a.raised = "BaseError" => a.kind = "OperationalException"
                /\ a.raised \in CcxtErrors =>
                       a.kind \in {"DDosProtection", "TemporaryError",
                                   "OperationalException"}

C8_Witness ==
    /\ last.op = "additional_exchange_init"
    /\ \E i \in 1..Len(last.attempts) :
           /\ last.attempts[i].raised = "DDoSProtection"
           /\ last.attempts[i].kind = "DDosProtection"

HasPositionIdx(params) ==
    "positionIdx" \in DOMAIN params /\ params["positionIdx"] = 1

\* C9 as stated: in futures mode the params of _get_params contain
\* positionIdx = 1 whatever the margin mode, also with none configured; in spot
\* mode they are the base builder's params, without positionIdx.
C9_PositionIdxAllFutures ==
    last.op = "_get_params" =>
        /\ trading_mode = FUTURES => HasPositionIdx(last.result)
        /\ trading_mode = SPOT =>
               (last.result = last.base /\ "positionIdx" \notin DOMAIN last.result)

\* C9 as amended: in futures mode with a margin mode configured the params are
\* the base builder's plus positionIdx = 1; in futures mode with no margin mode
\* configured, and in spot mode, they are the base builder's params, without
\* positionIdx.
C9_PositionIdxWithMargin ==
    last.op = "_get_params" =>
        /\ (trading_mode = FUTURES /\ margin_mode # NONE) =>
               /\ HasPositionIdx(last.result)
               /\ DOMAIN last.result = DOMAIN last.base \cup {"positionIdx"}
               /\ \A k \in DOMAIN last.base : last.result[k] = last.base[k]
        /\ ((trading_mode = FUTURES /\ margin_mode = NONE) \/ trading_mode = SPOT) =>
               (last.result = last.base /\ "positionIdx" \notin DOMAIN last.result)

C9_Witness ==
    /\ last.op = "_get_params"
    /\ ~validate
    /\ trading_mode = FUTURES
    /\ margin_mode = NONE
    /\ last.reduceOnly
    /\ last.result = last.base
    /\ "positionIdx" \notin DOMAIN last.result

\* C10: market_is_future is true only for a market the base classification
\* accepts and whose "swap" flag is true; a market the base rejects, one whose
\* swap flag is false and one with no "swap" key are not futures.
C10_MarketIsFutureNarrows ==
    last.op = "market_is_future" =>
        /\ last.result = TRUE =>
               (last.main /\ "swap" \in DOMAIN last.market /\ last.market["swap"])
        /\ ~last.main => last.result = FALSE
        /\ ("swap" \in DOMAIN last.market /\ ~last.market["swap"]) => last.result = FALSE
        /\ "swap" \notin DOMAIN last.market => last.result = FALSE

C10_Witness ==
    /\ last.op = "market_is_future"
    /\ last.main
    /\ "swap" \notin DOMAIN last.market
    /\ last.result = FALSE

====
